---- MODULE Spec2Model ----
(***************************************************************************)
(* Model of dll::conv_rbm (include/dll/conv_rbm.hpp) and of the batch       *)
(* forwarding of dll::group_layer_impl                                      *)
(* (include/dll/utility/group_layer_impl.hpp).                              *)
(*                                                                          *)
(* Numbers.  The fields of the layer are doubles.  A field value is held    *)
(* as an integer number of 1/Scale units (1.0 is Scale); kernel weights     *)
(* are whole numbers, so input * weight is exact.  NaN stands for a         *)
(* non-finite double and is absorbing for + and *, false for >.             *)
(* Vectors are functions over 0..n-1, indexed as in the source.             *)
(***************************************************************************)
EXTENDS Integers, Sequences, FiniteSets

\* ------------------------------------------------------------------ bounds
MaxNV == 2
MaxK == 2
MaxCalls == 2
MaxLen == 4
MaxVal == 4
MaxLayers == 3
MaxBatch == 3

\* ----------------------------------------------------------------- numbers
Scale == 100
NaN == 1000000

IsFinite(x) == x # NaN
Add(x, y) == IF x = NaN \/ y = NaN THEN NaN ELSE x + y
Mul(x, y) == IF x = NaN \/ y = NaN THEN NaN ELSE x * y
Greater(x, y) == x # NaN /\ y # NaN /\ x > y

Size(v) == Cardinality(DOMAIN v)
Zeros(n) == [i \in 0..(n - 1) |-> 0]

\* logistic_sigmoid(x) = 1 / (1 + exp(-x)), tabulated at the whole numbers
\* -4..4 in 1/Scale units and interpolated linearly in between.
SigTable == <<2, 5, 12, 27, 50, 73, 88, 95, 98>>
SigAt(i) == SigTable[i + 5]
logistic_sigmoid(x) ==
    IF x = NaN THEN NaN
    ELSE IF x < -4 * Scale THEN 1
    ELSE IF x >= 4 * Scale THEN 99
    ELSE LET lo == x \div Scale
             fr == x % Scale
         IN  SigAt(lo) + ((SigAt(lo + 1) - SigAt(lo)) * fr) \div Scale

\* std::default_random_engine is a Lehmer generator (x * a mod m); the model
\* keeps its shape with a small modulus.  0 is the static not yet constructed.
LcgMod == 31
LcgMul == 3
Unseeded == 0
Seeds == {1, 12}
RngNext(s) == (s * LcgMul) % LcgMod
RECURSIVE RngAt(_, _)
RngAt(s, n) == IF n = 0 THEN s ELSE RngAt(RngNext(s), n - 1)
\* the n-th draw (n >= 1) of uniform_real_distribution(0.0, 1.0) from state s
Draw(s, n) == (RngAt(s, n) * Scale) \div LcgMod

\* what a read outside a buffer, or of a never-initialised double, can yield
Garbage == {0, NaN}

VARIABLES
    NV, NH, K,                  \* layer shape (Layer::NV, Layer::NH, Layer::K)
    learning_rate, momentum,
    w, b, c,                    \* weight store
    v1, h1_a, h1_s, v2_a, v2_s, h2_a, h2_s,
    v_cv, h_cv,                 \* convolution temporaries
    rngH, rngV,                 \* static generators of activate_hidden / activate_visible
    pc, phase, k,               \* control: position, call site in reconstruct, map index
    items,                      \* the argument of the latest reconstruct call
    failure,                    \* which dll_assert ended the process, "none" otherwise
    steps,                      \* activation calls entered by the current reconstruct
    calls, trained,
    conv_call,                  \* lengths (and out-of-range value) of the latest convolve call
    h_cv0, rng0H, rng0V,        \* history: h_cv at construction, generators at the call's entries
    cv_input, cv_kernel, cv_output, cv_pc,            \* stand-alone convolve
    n_layers, g_mode, g_pc, g_L, g_input, g_next, g_output, g_trace  \* group layer

rbmVars == <<NV, NH, K, learning_rate, momentum, w, b, c, v1, h1_a, h1_s, v2_a, v2_s,
             h2_a, h2_s, v_cv, h_cv, rngH, rngV, pc, phase, k, items, failure, steps,
             calls, trained, conv_call, h_cv0, rng0H, rng0V>>
cvVars == <<cv_input, cv_kernel, cv_output, cv_pc>>
groupVars == <<n_layers, g_mode, g_pc, g_L, g_input, g_next, g_output, g_trace>>
vars == <<rbmVars, cvVars, groupVars>>

NW == NV - NH + 1
num_visible == NV * NV
num_hidden == NH * NH

\* ---------------------------------------------------------------- convolve
\* input[i]; an index past the end of the buffer is an unchecked read.
At(input, i, oob) == IF i \in DOMAIN input THEN input[i] ELSE oob

\* the inner loop over the taps: each tap assigns output[n]
RECURSIVE TapLoop(_, _, _, _, _, _)
TapLoop(input, kernel, n, t, out, oob) ==
    IF t >= Size(kernel) THEN out
    ELSE TapLoop(input, kernel, n, t + 1,
                 Mul(At(input, n + t, oob), kernel[Size(kernel) - t - 1]), oob)

\* convolve(input, kernel, output), output of outSize entries cleared first
convolve(input, kernel, outSize, oob) ==
    [n \in 0..(outSize - 1) |-> TapLoop(input, kernel, n, 0, 0, oob)]

\* whether the call reads input or kernel outside its length
ReadsOutside(inLen, kLen, outLen) ==
    \E n \in 0..(outLen - 1), t \in 0..(kLen - 1) :
        n + t >= inLen \/ kLen - t - 1 >= kLen \/ kLen - t - 1 < 0

ConvRecord(caller, inLen, kLen, outLen, oob) ==
    [caller |-> caller, inLen |-> inLen, kLen |-> kLen, outLen |-> outLen,
     oob |-> IF ReadsOutside(inLen, kLen, outLen) THEN oob ELSE 0]

\* ------------------------------------------------------- conv_rbm: state
\* the inputs the model enumerates: kernels, biases and samples by pattern
Patterns == 0..2
Weight(p, m, i) == ((p + m + i) % 3) - 1
Bias(p, m) == Scale * (((p + 2 * m) % 3) - 1)
Sample(q, len) == [i \in 0..(len - 1) |-> Scale * ((i + q) % 2)]

NoConv == [caller |-> "none", inLen |-> 0, kLen |-> 0, outLen |-> 0, oob |-> 0]

\* The layer after conv_rbm(){}: the shape is fixed, the weight store holds
\* finite values, and h_cv(K), which activate_visible reads before it ever
\* writes it, holds whatever the storage held.  The other buffers are written
\* before they are read; they start at 0.
RbmInit ==
    /\ NV \in 1..MaxNV
    /\ NH \in 1..NV
    /\ K \in 1..MaxK
    /\ learning_rate = Scale \div 10
    /\ momentum = Scale \div 2
    /\ \E p \in Patterns :
         /\ w = [m \in 0..(K - 1) |-> [i \in 0..(NW * NW - 1) |-> Weight(p, m, i)]]
         /\ b = [m \in 0..(K - 1) |-> Bias(p, m)]
         /\ c = Scale * (p % 2)
    /\ v1 = Zeros(num_visible)
    /\ h1_a = [m \in 0..(K - 1) |-> Zeros(num_hidden)]
    /\ h1_s = [m \in 0..(K - 1) |-> Zeros(num_hidden)]
    /\ v2_a = Zeros(num_visible)
    /\ v2_s = Zeros(num_visible)
    /\ h2_a = [m \in 0..(K - 1) |-> Zeros(num_hidden)]
    /\ h2_s = [m \in 0..(K - 1) |-> Zeros(num_hidden)]
    /\ v_cv = [m \in 0..(K - 1) |-> Zeros(num_hidden)]
    /\ \E g \in Garbage :
         h_cv = [m \in 0..K |-> IF m = K THEN [i \in 0..(num_visible - 1) |-> g]
                                         ELSE Zeros(num_visible)]
    /\ h_cv0 = h_cv
    /\ rngH = Unseeded
    /\ rngV = Unseeded
    /\ rng0H = Unseeded
    /\ rng0V = Unseeded
    /\ pc = "idle"
    /\ phase = 0
    /\ k = 0
    /\ items = << >>
    /\ failure = "none"
    /\ steps = << >>
    /\ calls = 0
    /\ trained = 0
    /\ conv_call = NoConv

weightVars == <<w, b, c, learning_rate, momentum>>
shapeVars == <<NV, NH, K>>
bufferVars == <<v1, h1_a, h1_s, v2_a, v2_s, h2_a, h2_s, v_cv, h_cv>>
histVars == <<h_cv0, rng0H, rng0V>>

\* ------------------------------------------------- conv_rbm: stochastic units
\* Units with the sample taken from the total input instead of the activation
Units_sample_from_x(field, bias, rng, n) ==
    [j \in 0..(n - 1) |->
        LET x == Add(field[j], bias)
            a == logistic_sigmoid(x)
        IN  [x |-> x, a |-> a,
             s |-> IF Greater(x, Draw(rng, j + 1)) THEN Scale ELSE 0]]

\* The unit loop of activate_hidden / activate_visible over n units: total
\* input x, activation a, sample s (1.0 when a exceeds the unit's draw).
Units(field, bias, rng, n) ==
    [j \in 0..(n - 1) |->
        LET x == Add(field[j], bias)
            a == logistic_sigmoid(x)
        IN  [x |-> x, a |-> a,
             s |-> IF Greater(a, Draw(rng, j + 1)) THEN Scale ELSE 0]]

\* units whose dll_assert(std::isfinite(..)) fails
BadUnits(u) == {j \in DOMAIN u : ~IsFinite(u[j].x) \/ ~IsFinite(u[j].a) \/ ~IsFinite(u[j].s)}
Min(S) == CHOOSE x \in S : \A y \in S : x <= y
\* the last unit the loop reaches: the first failing one, or the last of all
LastUnit(u) == IF BadUnits(u) = {} THEN Size(u) - 1 ELSE Min(BadUnits(u))
\* a buffer cleared before the loop after the loop wrote units 0..LastUnit
WrittenA(u) == [j \in DOMAIN u |-> IF j <= LastUnit(u) THEN u[j].a ELSE 0]
WrittenS(u) == [j \in DOMAIN u |-> IF j <= LastUnit(u) THEN u[j].s ELSE 0]

\* ------------------------------------------------------ conv_rbm: actions
\* dll_assert(cond, message): a failed assertion ends the process.
dll_assert_fails(message) ==
    /\ pc' = "aborted"
    /\ failure' = message

\* the buffers an activation call of reconstruct is handed, by call site
HiddenCall(ph) == IF ph = 1 THEN [op |-> "activate_hidden", reads |-> "v1", writes |-> "h1"]
                            ELSE [op |-> "activate_hidden", reads |-> "v2", writes |-> "h2"]
VisibleCall == [op |-> "activate_visible", reads |-> "h1", writes |-> "v2"]

\* reconstruct without its size assertion
reconstruct_unchecked ==
    /\ UNCHANGED <<cvVars, groupVars>>
    /\ pc = "idle"
    /\ calls < MaxCalls
    /\ \E len \in {num_visible - 1, num_visible, num_visible + 1}, q \in 0..1 :
         /\ items' = Sample(q, len)
         /\ v1' = items'
    /\ steps' = << >>
    /\ phase' = 1
    /\ pc' = "ah_enter"
    /\ UNCHANGED <<shapeVars, weightVars, h1_a, h1_s, v2_a, v2_s, h2_a, h2_s, v_cv, h_cv,
                   rngH, rngV, k, failure, calls, trained, conv_call, histVars>>

\* reconstruct(items), up to the first activation call
reconstruct ==
    /\ UNCHANGED <<cvVars, groupVars>>
    /\ pc = "idle"
    /\ calls < MaxCalls
    /\ \E len \in {num_visible - 1, num_visible, num_visible + 1}, q \in 0..1 :
         /\ items' = Sample(q, len)
         /\ IF Size(items') # num_visible
            THEN /\ dll_assert_fails("size")
                 /\ UNCHANGED <<v1, phase, steps>>
            ELSE /\ v1' = items'
                 /\ steps' = << >>
                 /\ phase' = 1
                 /\ pc' = "ah_enter"
                 /\ UNCHANGED failure
    /\ UNCHANGED <<shapeVars, weightVars, h1_a, h1_s, v2_a, v2_s, h2_a, h2_s, v_cv, h_cv,
                   rngH, rngV, k, calls, trained, conv_call, histVars>>

\* activate_hidden: entry, the function's statics are constructed on first use
activate_hidden_enter ==
    /\ UNCHANGED <<cvVars, groupVars, items>>
    /\ pc = "ah_enter"
    /\ \E seed \in (IF rngH = Unseeded THEN Seeds ELSE {rngH}) :
         /\ rngH' = seed
         /\ rng0H' = IF phase = 1 THEN seed ELSE rng0H
    /\ steps' = Append(steps, HiddenCall(phase))
    /\ k' = 0
    /\ pc' = "ah_loop"
    /\ UNCHANGED <<shapeVars, weightVars, bufferVars, rngV, phase, failure, calls,
                   trained, conv_call, h_cv0, rng0V>>

\* activate_hidden: one pass of the loop over the feature maps, map k
activate_hidden_map ==
    /\ UNCHANGED <<cvVars, groupVars, items>>
    /\ pc = "ah_loop"
    /\ k < K
    /\ \E g \in Garbage :
         LET v_a == IF phase = 1 THEN v1 ELSE v2_a
             cv == convolve(v_a, w[k], num_hidden, g)
             u == Units(cv, b[k], rngH, num_hidden)
         IN  /\ v_cv' = [v_cv EXCEPT ![k] = cv]
             /\ conv_call' = ConvRecord("activate_hidden", Size(v_a), Size(w[k]), num_hidden, g)
             /\ IF phase = 1
                THEN /\ h1_a' = [h1_a EXCEPT ![k] = WrittenA(u)]
                     /\ h1_s' = [h1_s EXCEPT ![k] = WrittenS(u)]
                     /\ UNCHANGED <<h2_a, h2_s>>
                ELSE /\ h2_a' = [h2_a EXCEPT ![k] = WrittenA(u)]
                     /\ h2_s' = [h2_s EXCEPT ![k] = WrittenS(u)]
                     /\ UNCHANGED <<h1_a, h1_s>>
             /\ rngH' = RngAt(rngH, LastUnit(u) + 1)
             /\ IF BadUnits(u) = {}
                THEN /\ k' = k + 1
                     /\ UNCHANGED <<pc, failure>>
                ELSE /\ dll_assert_fails("NaN verify")
                     /\ UNCHANGED k
    /\ UNCHANGED <<shapeVars, weightVars, v1, v2_a, v2_s, h_cv, rngV, phase, steps, calls,
                   trained, histVars>>

\* reconstruct going from the first activate_hidden straight to the second
activate_hidden_return_skips_visible ==
    /\ UNCHANGED <<cvVars, groupVars, items>>
    /\ pc = "ah_loop"
    /\ k = K
    /\ IF phase = 1
       THEN /\ phase' = 3
            /\ pc' = "ah_enter"
            /\ UNCHANGED calls
       ELSE /\ phase' = 0
            /\ pc' = "idle"
            /\ calls' = calls + 1
    /\ UNCHANGED <<shapeVars, weightVars, bufferVars, rngH, rngV, k, failure, steps,
                   trained, conv_call, histVars>>

\* activate_hidden returns: to reconstruct's next call, or out of reconstruct
activate_hidden_return ==
    /\ UNCHANGED <<cvVars, groupVars, items>>
    /\ pc = "ah_loop"
    /\ k = K
    /\ IF phase = 1
       THEN /\ phase' = 2
            /\ pc' = "av_enter"
            /\ UNCHANGED calls
       ELSE /\ phase' = 0
            /\ pc' = "idle"
            /\ calls' = calls + 1
    /\ UNCHANGED <<shapeVars, weightVars, bufferVars, rngH, rngV, k, failure, steps,
                   trained, conv_call, histVars>>

\* activate_visible: entry, statics on first use, v_a = 0.0, v_s = 0.0
activate_visible_enter ==
    /\ UNCHANGED <<cvVars, groupVars, items>>
    /\ pc = "av_enter"
    /\ \E seed \in (IF rngV = Unseeded THEN Seeds ELSE {rngV}) :
         /\ rngV' = seed
         /\ rng0V' = seed
    /\ steps' = Append(steps, VisibleCall)
    /\ v2_a' = Zeros(num_visible)
    /\ v2_s' = Zeros(num_visible)
    /\ k' = 0
    /\ pc' = "av_loop"
    /\ UNCHANGED <<shapeVars, weightVars, v1, h1_a, h1_s, h2_a, h2_s, v_cv, h_cv, rngH,
                   phase, failure, calls, trained, conv_call, h_cv0, rng0H>>

\* activate_visible: one pass of the loop over the feature maps, map k
activate_visible_map ==
    /\ UNCHANGED <<cvVars, groupVars, items>>
    /\ pc = "av_loop"
    /\ k < K
    /\ \E g \in Garbage :
         LET cv == convolve(h1_s[k], w[k], num_visible, g)
         IN  /\ h_cv' = [h_cv EXCEPT ![k] = cv,
                                     ![K] = [i \in 0..(num_visible - 1) |-> Add(h_cv[K][i], cv[i])]]
             /\ conv_call' = ConvRecord("activate_visible", Size(h1_s[k]), Size(w[k]),
                                        num_visible, g)
    /\ k' = k + 1
    /\ UNCHANGED <<shapeVars, weightVars, v1, h1_a, h1_s, v2_a, v2_s, h2_a, h2_s, v_cv,
                   rngH, rngV, pc, phase, failure, steps, calls, trained, histVars>>

\* the unit loop storing each total input in the bias c instead of a local
activate_visible_units_writes_c ==
    /\ UNCHANGED <<cvVars, groupVars, items>>
    /\ pc = "av_loop"
    /\ k = K
    /\ LET u == Units(h_cv[K], c, rngV, num_visible)
       IN  /\ v2_a' = WrittenA(u)
           /\ v2_s' = WrittenS(u)
           /\ c' = u[LastUnit(u)].x
           /\ rngV' = RngAt(rngV, LastUnit(u) + 1)
           /\ IF BadUnits(u) = {}
              THEN /\ phase' = 3
                   /\ pc' = "ah_enter"
                   /\ UNCHANGED failure
              ELSE /\ dll_assert_fails("NaN verify")
                   /\ UNCHANGED phase
    /\ UNCHANGED <<shapeVars, w, b, learning_rate, momentum, v1, h1_a, h1_s, h2_a, h2_s,
                   v_cv, h_cv, rngH, k, steps, calls, trained, conv_call, histVars>>

\* activate_visible: the loop over the visible units, then the return
activate_visible_units ==
    /\ UNCHANGED <<cvVars, groupVars, items>>
    /\ pc = "av_loop"
    /\ k = K
    /\ LET u == Units(h_cv[K], c, rngV, num_visible)
       IN  /\ v2_a' = WrittenA(u)
           /\ v2_s' = WrittenS(u)
           /\ rngV' = RngAt(rngV, LastUnit(u) + 1)
           /\ IF BadUnits(u) = {}
              THEN /\ phase' = 3
                   /\ pc' = "ah_enter"
                   /\ UNCHANGED failure
              ELSE /\ dll_assert_fails("NaN verify")
                   /\ UNCHANGED phase
    /\ UNCHANGED <<shapeVars, weightVars, v1, h1_a, h1_s, h2_a, h2_s, v_cv, h_cv, rngH, k,
                   steps, calls, trained, conv_call, histVars>>

\* free_energy(): returns 0.0 and touches nothing
free_energy ==
    /\ pc = "idle"
    /\ UNCHANGED vars

\* The update step of the trainer that train() hands the layer to: after a
\* reconstruct call it moves every weight and bias by one step, whose sign
\* comes from the buffers of that call.
train_update ==
    /\ UNCHANGED <<cvVars, groupVars, items>>
    /\ pc = "idle"
    /\ trained < calls
    /\ LET d == IF v1[0] > h1_s[0][0] THEN 1 ELSE -1 IN
         /\ w' = [m \in DOMAIN w |-> [i \in DOMAIN w[m] |-> w[m][i] + d]]
         /\ b' = [m \in DOMAIN b |-> b[m] + d * learning_rate]
         /\ c' = c + d * learning_rate
    /\ trained' = calls
    /\ UNCHANGED <<shapeVars, learning_rate, momentum, bufferVars, rngH, rngV, pc, phase, k,
                   failure, steps, calls, conv_call, histVars>>

CvParked ==
    /\ cv_input = << >>
    /\ cv_kernel = << >>
    /\ cv_output = << >>
    /\ cv_pc = "off"

GroupParked ==
    /\ n_layers = 0
    /\ g_mode = "none"
    /\ g_pc = "off"
    /\ g_L = 0
    /\ g_input = 0
    /\ g_next = 0
    /\ g_output = 0
    /\ g_trace = << >>

Init == RbmInit /\ CvParked /\ GroupParked

Next ==
    \/ reconstruct
    \/ activate_hidden_enter
    \/ activate_hidden_map
    \/ activate_hidden_return
    \/ activate_visible_enter
    \/ activate_visible_map
    \/ activate_visible_units
    \/ free_energy
    \/ train_update

Spec == Init /\ [][Next]_vars

\* ------------------------------------------------------------ properties
\* sum over the K feature maps of the per-map reverse convolutions at unit i
RECURSIVE SumMaps(_, _, _)
SumMaps(field, m, i) ==
    IF m = 0 THEN 0 ELSE Add(SumMaps(field, m - 1, i), field[m - 1][i])

\* C2: in every convolve call issued by activate_hidden and activate_visible
\* each index n+k read from the input is below the input's length and each
\* kernel index is below the kernel's length.
C2_CallersKeepIndexesInRange ==
    conv_call.caller # "none" =>
        \A n \in 0..(conv_call.outLen - 1), t \in 0..(conv_call.kLen - 1) :
            /\ n + t < conv_call.inLen
            /\ conv_call.kLen - t - 1 \in 0..(conv_call.kLen - 1)

ExpectedSteps == <<HiddenCall(1), VisibleCall, HiddenCall(3)>>

\* how many activation calls the current reconstruct has entered, by position
StepsEntered ==
    CASE pc = "ah_enter" -> phase - 1
      [] pc = "ah_loop" -> phase
      [] pc = "av_enter" -> 1
      [] pc = "av_loop" -> 2
      [] OTHER -> Len(steps)

\* C3: reconstruct sets v1 to the sample and then runs activate_hidden
\* (v1 -> h1), activate_visible (h1 -> v2), activate_hidden (v2 -> h2), each
\* exactly once and in this order, each reading what the previous one wrote.
C3_UpDownUp ==
    /\ Len(steps) <= 3
    /\ steps = SubSeq(ExpectedSteps, 1, Len(steps))
    /\ Len(steps) = StepsEntered
    /\ (pc = "idle" /\ calls > 0) => steps = ExpectedSteps
    /\ pc \in {"ah_enter", "ah_loop", "av_enter", "av_loop"} => v1 = items
    /\ (pc = "ah_loop" /\ phase = 1) =>
          \A m \in 0..(k - 1) : v_cv[m] = convolve(v1, w[m], num_hidden, 0)
    /\ (pc = "av_loop" /\ k > 0) =>
          h_cv[k - 1] = convolve(h1_s[k - 1], w[k - 1], num_visible, conv_call.oob)
    /\ (pc = "ah_loop" /\ phase = 3) =>
          \A m \in 0..(k - 1) : v_cv[m] = convolve(v2_a, w[m], num_hidden, 0)

C3_Witness == pc = "idle" /\ calls = 2 /\ steps = ExpectedSteps /\ v1 = items

\* C4: reconstruct with a sample whose length is not NV*NV fails with the
\* size-mismatch assertion before any activation step, and leaves w, b, c
\* (and every buffer) as they were.
C4_SizeMismatchFailsFirst ==
    [][(pc = "idle" /\ pc' # "idle" /\ Size(items') # num_visible) =>
          /\ pc' = "aborted"
          /\ failure' = "size"
          /\ UNCHANGED <<w, b, c>>
          /\ UNCHANGED bufferVars
          /\ UNCHANGED steps]_vars

C4_Witness == failure = "size" /\ calls = 1 /\ Size(items) = num_visible + 1

\* C5: in every activate_visible call the combined field read by the unit
\* loop holds the sum of the K per-map convolutions of this call and nothing
\* else, so that x = that sum + c.
C5_CombinedFieldIsSumOfMaps ==
    (pc = "av_loop" /\ k = K) =>
        \A i \in 0..(num_visible - 1) : h_cv[K][i] = SumMaps(h_cv, K, i)

\* what a layer that has run no reconstruct leaves for the same sample, the
\* same w, b, c and the same draws
FreshH1 == [m \in 0..(K - 1) |->
               Units(convolve(v1, w[m], num_hidden, 0), b[m],
                     RngAt(rng0H, m * num_hidden), num_hidden)]
FreshV2 == Units([i \in 0..(num_visible - 1) |-> Add(h_cv0[K][i], SumMaps(h_cv, K, i))],
                 c, rng0V, num_visible)
FreshH2 == [m \in 0..(K - 1) |->
               Units(convolve([i \in 0..(num_visible - 1) |-> FreshV2[i].a], w[m],
                              num_hidden, 0),
                     b[m], RngAt(rng0H, (K + m) * num_hidden), num_hidden)]

\* C6: v_cv and h_cv carry no state across calls: a reconstruct call leaves in
\* h1_a, h1_s, v2_a, v2_s, h2_a, h2_s what the same call leaves on a layer
\* that has run no earlier reconstruct.
C6_NoStateAcrossCalls ==
    (pc = "ah_loop" /\ phase = 3 /\ k = K) =>
        /\ \A m \in 0..(K - 1), j \in 0..(num_hidden - 1) :
              /\ h1_a[m][j] = FreshH1[m][j].a
              /\ h1_s[m][j] = FreshH1[m][j].s
              /\ h2_a[m][j] = FreshH2[m][j].a
              /\ h2_s[m][j] = FreshH2[m][j].s
        /\ \A i \in 0..(num_visible - 1) :
              /\ v2_a[i] = FreshV2[i].a
              /\ v2_s[i] = FreshV2[i].s

\* the same statement for the first call alone (no earlier reconstruct)
FirstCallIsFresh == calls = 0 => C6_NoStateAcrossCalls

\* C7: activate_hidden gives every unit j of map k the activation
\* sigmoid(convolution_k[j] + b[k]) and the sample 1 when the activation
\* exceeds the unit's draw, else 0; every entry of h_s is 0 or 1; and the
\* pass over map k writes h_a(k), h_s(k) and v_cv(k) only.
C7_HiddenUnits ==
    /\ [](\A m \in 0..(K - 1), j \in 0..(num_hidden - 1) :
             h1_s[m][j] \in {0, Scale} /\ h2_s[m][j] \in {0, Scale})
    /\ [][(pc = "ah_loop" /\ k < K) =>
            LET h_a == IF phase = 1 THEN h1_a' ELSE h2_a'
                h_s == IF phase = 1 THEN h1_s' ELSE h2_s'
                v_a == IF phase = 1 THEN v1 ELSE v2_a
            IN  /\ \A m \in 0..(K - 1) \ {k} :
                      /\ h1_a'[m] = h1_a[m] /\ h1_s'[m] = h1_s[m]
                      /\ h2_a'[m] = h2_a[m] /\ h2_s'[m] = h2_s[m]
                      /\ v_cv'[m] = v_cv[m]
                /\ IF phase = 1 THEN UNCHANGED <<h2_a, h2_s>> ELSE UNCHANGED <<h1_a, h1_s>>
                /\ UNCHANGED <<v1, v2_a, v2_s, h_cv>>
                /\ v_cv'[k] = convolve(v_a, w[k], num_hidden, 0)
                /\ pc' = "ah_loop" =>
                      \A j \in 0..(num_hidden - 1) :
                         /\ h_a[k][j] = logistic_sigmoid(Add(v_cv'[k][j], b[k]))
                         /\ h_s[k][j] = IF Greater(h_a[k][j], Draw(rngH, j + 1))
                                        THEN Scale ELSE 0]_vars

C7_Witness ==
    /\ pc = "ah_loop" /\ phase = 3 /\ k = K /\ K = 2 /\ num_hidden > 1
    /\ \E j \in 0..(num_hidden - 1) : h2_s[1][j] = Scale
    /\ \E j \in 0..(num_hidden - 1) : h2_s[1][j] = 0

\* C8: reconstruct, activate_hidden, activate_visible (with the convolve calls
\* they make) and free_energy leave w, b, c, learning_rate and momentum
\* unchanged; only the training update writes them.
C8_OnlyTrainingWritesWeights ==
    [][(\/ reconstruct
        \/ activate_hidden_enter
        \/ activate_hidden_map
        \/ activate_hidden_return
        \/ activate_visible_enter
        \/ activate_visible_map
        \/ activate_visible_units
        \/ free_energy) => UNCHANGED <<w, b, c, learning_rate, momentum>>]_vars

C8_Witness == trained = 1 /\ calls = 2 /\ pc = "idle"

\* C9: with finite, bounded weights, biases and samples the cycle
\* activate_hidden, activate_visible, activate_hidden never fails a
\* finiteness assertion and leaves only finite values, after any number of
\* earlier reconstruct calls.
C9_NoFinitenessFailure ==
    /\ failure # "NaN verify"
    /\ \A i \in 0..(num_visible - 1) : IsFinite(v2_a[i]) /\ IsFinite(v2_s[i])
    /\ \A m \in 0..(K - 1), j \in 0..(num_hidden - 1) :
          /\ IsFinite(h1_a[m][j]) /\ IsFinite(h1_s[m][j])
          /\ IsFinite(h2_a[m][j]) /\ IsFinite(h2_s[m][j])

\* activate_hidden alone never reads outside its input or kernel
HiddenCallsInRange ==
    conv_call.caller = "activate_hidden" =>
        ~ReadsOutside(conv_call.inLen, conv_call.kLen, conv_call.outLen)

\* ------------------------------------------------- convolve on its own
\* the layer left alone while another part of the module is exercised
RbmParked ==
    /\ RbmInit
    /\ NV = 1
    /\ K = 1
    /\ w[0][0] = -1
    /\ h_cv[1][0] = 0

\* any input of 1..MaxLen values and any 0/1 kernel no longer than it
CvInit ==
    /\ \E L \in 1..MaxLen : cv_input \in [0..(L - 1) -> 0..MaxVal]
    /\ \E L \in 1..Size(cv_input) : cv_kernel \in [0..(L - 1) -> 0..1]
    /\ cv_output = << >>
    /\ cv_pc = "ready"

\* convolve(input, kernel, output) with an output of L_in - L_k + 1 entries
cv_convolve ==
    /\ cv_pc = "ready"
    /\ \E g \in Garbage :
         cv_output' = convolve(cv_input, cv_kernel, Size(cv_input) - Size(cv_kernel) + 1, g)
    /\ cv_pc' = "done"
    /\ UNCHANGED <<cv_input, cv_kernel, rbmVars, groupVars>>

InitConv == RbmParked /\ CvInit /\ GroupParked
NextConv == cv_convolve
SpecConv == InitConv /\ [][NextConv]_vars

\* sum over the taps t in 0..L_k-1 of input[n+t] * kernel[L_k-1-t]
RECURSIVE TapSum(_, _, _, _)
TapSum(input, kernel, n, t) ==
    IF t = 0 THEN 0
    ELSE TapSum(input, kernel, n, t - 1)
         + input[n + t - 1] * kernel[Size(kernel) - t]

IsDelta(kernel) ==
    \A t \in DOMAIN kernel : kernel[t] = IF t = Size(kernel) - 1 THEN 1 ELSE 0

\* C1: convolve leaves output[n] = sum over k of input[n+k] * kernel[L_k-1-k]
\* for every n; so a kernel that is 1 at L_k-1 and 0 elsewhere copies
\* input[0..L_out-1], and input=[1,2,3,4], kernel=[1,0] gives [2,3,4].
C1_ConvolveSumsAllTaps ==
    cv_pc = "done" =>
        /\ \A n \in DOMAIN cv_output :
              cv_output[n] = TapSum(cv_input, cv_kernel, n, Size(cv_kernel))
        /\ IsDelta(cv_kernel) => \A n \in DOMAIN cv_output : cv_output[n] = cv_input[n]
        /\ (cv_input = [i \in 0..3 |-> i + 1] /\ cv_kernel = [i \in 0..1 |-> 1 - i]) =>
              cv_output = [i \in 0..2 |-> i + 2]

\* the listed example alone
ConvolveExample ==
    (cv_pc = "done" /\ cv_input = [i \in 0..3 |-> i + 1] /\ cv_kernel = [i \in 0..1 |-> 1 - i])
        => cv_output = [i \in 0..2 |-> i + 2]

\* ------------------------------------------------------ group_layer_impl
\* What sub-layer L returns for a batch under one of its three forwarding
\* functions; the layers differ from one another and do not commute.
ModeOffset(fn) == CASE fn = "forward_batch" -> 0
                    [] fn = "test_forward_batch" -> 1
                    [] fn = "train_forward_batch" -> 2
LayerApply(L, fn, x) == (x * (L + 2) + L + ModeOffset(fn)) % 11

GroupInit ==
    /\ n_layers \in 1..MaxLayers
    /\ g_mode = "none"
    /\ g_pc = "idle"
    /\ g_L = 0
    /\ g_input = 0
    /\ g_next = 0
    /\ g_output = 0
    /\ g_trace = << >>

\* X(output, input) of the group: X_sub<0>(output, input)
GroupEntry(fn) ==
    /\ g_pc = "idle"
    /\ \E x \in 0..MaxBatch :
         /\ g_input' = x
         /\ g_next' = x
    /\ g_mode' = fn
    /\ g_pc' = fn
    /\ g_L' = 0
    /\ g_trace' = << >>
    /\ UNCHANGED <<n_layers, g_output, rbmVars, cvVars>>

\* X_sub<L>, L != n_layers - 1: next_input = layer L's called(input), then
\* X_sub<L+1>(output, next_input)
GroupSubNext(fn, called) ==
    /\ g_pc = fn
    /\ g_L # n_layers - 1
    /\ LET next_input == LayerApply(g_L, called, g_next)
       IN  /\ g_trace' = Append(g_trace, [layer |-> g_L, fn |-> called, input |-> g_next,
                                          result |-> next_input, into_output |-> FALSE])
           /\ g_next' = next_input
    /\ g_L' = g_L + 1
    /\ UNCHANGED <<n_layers, g_mode, g_pc, g_input, g_output, rbmVars, cvVars>>

\* X_sub<L>, L == n_layers - 1: layer L's called(output, input)
GroupSubLast(fn, called) ==
    /\ g_pc = fn
    /\ g_L = n_layers - 1
    /\ g_output' = LayerApply(g_L, called, g_next)
    /\ g_trace' = Append(g_trace, [layer |-> g_L, fn |-> called, input |-> g_next,
                                   result |-> g_output', into_output |-> TRUE])
    /\ g_pc' = "idle"
    /\ UNCHANGED <<n_layers, g_mode, g_L, g_input, g_next, rbmVars, cvVars>>

test_forward_batch == GroupEntry("test_forward_batch")
test_forward_batch_sub_next == GroupSubNext("test_forward_batch", "test_forward_batch")
test_forward_batch_sub_last == GroupSubLast("test_forward_batch", "test_forward_batch")

\* the train variant calling the sub-layers' test function
train_forward_batch_sub_next_calls_test ==
    GroupSubNext("train_forward_batch", "test_forward_batch")

train_forward_batch == GroupEntry("train_forward_batch")
train_forward_batch_sub_next == GroupSubNext("train_forward_batch", "train_forward_batch")
train_forward_batch_sub_last == GroupSubLast("train_forward_batch", "train_forward_batch")

forward_batch == GroupEntry("forward_batch")
forward_batch_sub_next == GroupSubNext("forward_batch", "forward_batch")
forward_batch_sub_last == GroupSubLast("forward_batch", "forward_batch")

InitGroup == RbmParked /\ CvParked /\ GroupInit
NextGroup ==
    \/ test_forward_batch
    \/ test_forward_batch_sub_next
    \/ test_forward_batch_sub_last
    \/ train_forward_batch
    \/ train_forward_batch_sub_next
    \/ train_forward_batch_sub_last
    \/ forward_batch
    \/ forward_batch_sub_next
    \/ forward_batch_sub_last
SpecGroup == InitGroup /\ [][NextGroup]_vars

\* C10: forward_batch, test_forward_batch and train_forward_batch of a group of
\* n >= 1 layers apply layers 0..n-1 once each in index order; layer 0 gets the
\* group's input, layer L+1 the batch layer L returned, only the last layer
\* writes the group's output, and each variant calls only the sub-layers'
\* function of the same name.
C10_SequentialForwarding ==
    /\ Len(g_trace) <= n_layers
    /\ \A i \in 1..Len(g_trace) :
          /\ g_trace[i].layer = i - 1
          /\ g_trace[i].fn = g_mode
          /\ g_trace[i].input = IF i = 1 THEN g_input ELSE g_trace[i - 1].result
          /\ g_trace[i].result = LayerApply(i - 1, g_mode, g_trace[i].input)
          /\ g_trace[i].into_output = (i = n_layers)
    /\ g_pc # "idle" => Len(g_trace) = g_L
    /\ (g_pc = "idle" /\ g_mode # "none") =>
          /\ Len(g_trace) = n_layers
          /\ g_output = g_trace[n_layers].result

C10_Witness ==
    /\ g_pc = "idle"
    /\ g_mode = "train_forward_batch"
    /\ n_layers = 3
    /\ Len(g_trace) = 3
    /\ g_input = 2

====
